---- MODULE Spec2Model ----
(***************************************************************************)
(* A model of the storage layer (src/storage.ts, class DatabaseStorage)    *)
(* and of the route layer (src/unnamed/part_000, registerRoutes) of the    *)
(* contact / analytics / client-portal backend.                            *)
(*                                                                         *)
(* The relational store is the state.  One store statement is one atomic   *)
(* step; a handler that issues a single statement is one action, taken at  *)
(* the moment its statement executes.  getAnalyticsDashboard issues five   *)
(* statements, each behind its own await, and is five steps that other     *)
(* requests may interleave with.                                           *)
(*                                                                         *)
(* Five specifications share the variables: Spec (contact form and CRM     *)
(* routes), SpecCrm (the status update under a running clock),             *)
(* SpecAnalytics (the dashboard with requests between its statements),     *)
(* SpecTopPages (the dashboard over every path), SpecPortal (clients and   *)
(* projects).                                                              *)
(***************************************************************************)
EXTENDS Integers, Sequences, FiniteSets, TLC

\* ---------------------------------------------------------------- bounds

\* Rows the contactSubmissions table may hold.
MaxSubmissions == 2
\* Last reading of the clock (readings are 0..MaxTime).
MaxTime == 1
\* Rows the pageViews table may hold.
MaxPageViews == 6
\* Requests served while one dashboard call is between two of its awaits.
MaxInterleave == 1
\* Rows the clients table may hold.
MaxClients == 2
\* Rows the projects table may hold.
MaxProjects == 3

\* ------------------------------------------------------------ value sets

\* An absent optional value: an undefined argument, a NULL column.
Null == -1

\* The caseworker ids a PATCH body may carry.
Users == {1}

\* The status strings a PATCH body may carry.
Statuses == {"in-progress", "closed"}

\* The visited paths; more of them than topPages may list.
Paths == {"/a", "/b", "/c", "/d", "/e", "/f"}

\* Row limit of the topPages query and of the recentSubmissions query.
TopLimit == 5

\* The placeholder client id of the /api/client/projects routes.
PlaceholderClientId == 1

Min(a, b) == IF a < b THEN a ELSE b

VARIABLES
    contactSubmissions, \* table: sequence of rows, row i has id i
    pageViews,          \* table: pageViews[p] = number of rows whose path is p
    clients,            \* table: sequence of rows, row i has id i
    projects,           \* table: sequence of rows, row i has id i
    now,                \* the clock read by new Date() and by the store's defaults
    dash,               \* the getAnalyticsDashboard call in flight, with its locals
    between,            \* requests served since the dashboard call in flight began
    resp,               \* the last request served: its route, input, calls and responses
    acked,              \* submissionIds sent in 200 responses of POST /api/contact
    viaRoute            \* ids of the projects sent in 200 responses of POST /api/client/projects

vars == <<contactSubmissions, pageViews, clients, projects, now, dash, between,
          resp, acked, viaRoute>>

\* No dashboard call in flight.
DashIdle ==
    [pc |-> 0, totalVisitors |-> 0, totalPageViews |-> 0, totalContacts |-> 0,
     conversionRate |-> 0, topPages |-> <<>>]

\* ------------------------------------------------------ request bodies

\* Bodies of POST /api/contact: complete, or with a required field missing.
ContactBodies ==
    { [name |-> "n", email |-> "e", message |-> "m"],
      [name |-> "n", email |-> "e"],
      [name |-> "n", message |-> "m"] }

ContactRequired == {"name", "email", "message"}

\* schema.parse(body): the validation issues, one per missing required field;
\* it throws a ZodError exactly when there is one.
parse(required, body) == required \ DOMAIN body

\* ------------------------------------------------------------ the store

Ids(table) == {table[i].id : i \in 1..Len(table)}

\* ORDER BY key DESC over a set of rows: every order the store may return,
\* rows of equal key in any order.
RECURSIVE OrderByDesc(_, _)
OrderByDesc(S, key) ==
    IF S = {} THEN {<<>>}
    ELSE LET top == {x \in S : \A y \in S : key[x] >= key[y]}
         IN  UNION { { <<x>> \o rest : rest \in OrderByDesc(S \ {x}, key) } : x \in top }

\* LIMIT n
Limit(seq, n) == SubSeq(seq, 1, Min(n, Len(seq)))

Rows(table) == {table[i] : i \in 1..Len(table)}

\* The columns the store fills in when a ContactSubmission is inserted.
ContactDefaults(table, t) ==
    [id |-> Len(table) + 1, status |-> "new", assignedTo |-> Null,
     createdAt |-> t, updatedAt |-> t]

\* db.insert(contactSubmissions).values(v).returning()
createContactSubmission(table, insertSubmission, t) ==
    LET submission == insertSubmission @@ ContactDefaults(table, t)
    IN  [table |-> Append(table, submission), result |-> submission]

\* Mutant: the select carries the .limit() of the dashboard's query, here 1.
getContactSubmissions_Limited(table) ==
    {Limit(s, 1) : s \in OrderByDesc(Rows(table), [r \in Rows(table) |-> r.createdAt])}

\* db.select().from(contactSubmissions).orderBy(desc(createdAt))
getContactSubmissions(table) ==
    OrderByDesc(Rows(table), [r \in Rows(table) |-> r.createdAt])

\* Mutant: assignedTo is put in the SET clause whatever its value.
UpdateData_AlwaysAssign(status, assignedTo, t) ==
    [status |-> status, updatedAt |-> t, assignedTo |-> assignedTo]

\* The update statement's SET clause.
UpdateData(status, assignedTo, t) ==
    [status |-> status, updatedAt |-> t]
        @@ (IF assignedTo # Null /\ assignedTo # 0
            THEN [assignedTo |-> assignedTo] ELSE <<>>)

\* db.update(contactSubmissions).set(updateData).where(eq(id, id)).returning():
\* returning is <<>> when no row matches, and the destructured result undefined.
updateContactSubmissionStatus(table, id, status, assignedTo, t) ==
    LET updateData == UpdateData(status, assignedTo, t)
        set(row) == [f \in DOMAIN row |->
                        IF f \in DOMAIN updateData THEN updateData[f] ELSE row[f]]
        updated == [i \in 1..Len(table) |->
                        IF table[i].id = id THEN set(table[i]) ELSE table[i]]
    IN  [table |-> updated,
         result |-> IF id \in Ids(table) THEN <<updated[id]>> ELSE <<>>]

\* ------------------------------------------------------------ the routes

\* Mutant: the storage call is made before the body is parsed.
CreateRoute_ParseLate(errs, ok) ==
    IF ~ok THEN [code |-> 500, calls |-> 1, stored |-> FALSE]
    ELSE IF errs # {} THEN [code |-> 400, calls |-> 1, stored |-> TRUE]
    ELSE [code |-> 200, calls |-> 1, stored |-> TRUE]

\* Mutant: a rejected statement is issued a second time, and then accepted.
CreateRoute_Retry(errs, ok) ==
    IF errs # {} THEN [code |-> 400, calls |-> 0, stored |-> FALSE]
    ELSE IF ok THEN [code |-> 200, calls |-> 1, stored |-> TRUE]
    ELSE [code |-> 200, calls |-> 2, stored |-> TRUE]

\* try { parse; one storage call; res.json } catch { ZodError ? 400 : 500 },
\* errs the issues parse found and ok whether the store accepts the statement:
\* the response code, the number of storage calls made and whether the store
\* executed a statement.
CreateRoute(errs, ok) ==
    IF errs # {} THEN [code |-> 400, calls |-> 0, stored |-> FALSE]
    ELSE IF ok THEN [code |-> 200, calls |-> 1, stored |-> TRUE]
    ELSE [code |-> 500, calls |-> 1, stored |-> FALSE]

\* try { one storage call; res.json } catch { 500 }
PlainRoute(ok) ==
    IF ok THEN [code |-> 200, calls |-> 1, stored |-> TRUE]
    ELSE [code |-> 500, calls |-> 1, stored |-> FALSE]

\* One more request served while a dashboard call is in flight.
Serve ==
    IF dash.pc = 0 THEN between' = between
    ELSE between < MaxInterleave /\ between' = between + 1

Respond(route, req, out, body) ==
    resp' = [route |-> route, req |-> req, calls |-> out.calls,
             sent |-> <<[code |-> out.code, body |-> body]>>]

\* app.post("/api/contact")
PostContact(body, ok) ==
    LET errs == parse(ContactRequired, body)
        out == CreateRoute(errs, ok)
        call == createContactSubmission(contactSubmissions, body, now)
    IN  /\ Serve
        /\ out.stored => Len(contactSubmissions) < MaxSubmissions
        /\ contactSubmissions' =
              IF out.stored THEN call.table ELSE contactSubmissions
        /\ acked' = IF out.code = 200 THEN acked \cup {call.result.id} ELSE acked
        /\ Respond("POST /api/contact", body, out,
              CASE out.code = 200 -> [success |-> TRUE, submissionId |-> call.result.id]
                [] out.code = 400 -> [success |-> FALSE, errors |-> errs]
                [] OTHER -> [success |-> FALSE])
        /\ UNCHANGED <<pageViews, clients, projects, now, dash, viaRoute>>

\* app.get("/api/contact-submissions")
GetContactSubmissions(ok) ==
    LET out == PlainRoute(ok)
    IN  /\ Serve
        /\ \E submissions \in getContactSubmissions(contactSubmissions) :
              Respond("GET /api/contact-submissions", <<>>, out,
                  IF out.code = 200 THEN submissions ELSE <<>>)
        /\ UNCHANGED <<contactSubmissions, pageViews, clients, projects, now, dash,
                       acked, viaRoute>>

\* app.patch("/api/contact-submissions/:id")
PatchContactSubmission(id, status, assignedTo, ok) ==
    LET out == PlainRoute(ok)
        call == updateContactSubmissionStatus(contactSubmissions, id, status,
                                              assignedTo, now)
    IN  /\ Serve
        /\ contactSubmissions' =
              IF out.stored THEN call.table ELSE contactSubmissions
        /\ Respond("PATCH /api/contact-submissions/:id",
              [id |-> id, status |-> status, assignedTo |-> assignedTo], out,
              IF out.code = 200 THEN [success |-> TRUE, submission |-> call.result]
              ELSE [success |-> FALSE, submission |-> <<>>])
        /\ UNCHANGED <<pageViews, clients, projects, now, dash, acked, viaRoute>>

\* ------------------------------------------------------------ analytics

PageviewBodies == {[path |-> p] : p \in Paths} \cup {[referrer |-> "r"]}

PageviewRequired == {"path"}

RECURSIVE SumOver(_, _)
SumOver(f, S) ==
    IF S = {} THEN 0
    ELSE LET x == CHOOSE y \in S : TRUE IN f[x] + SumOver(f, S \ {x})

\* db.select({ count: count() }).from(pageViews)
CountPageViews(table) == SumOver(table, DOMAIN table)

\* db.select({ count: count() }).from(contactSubmissions)
CountContacts(table) == Len(table)

\* db.insert(pageViews).values(pageView).returning()
createPageView(table, pageView) ==
    [table |-> [table EXCEPT ![pageView.path] = @ + 1],
     result |-> pageView @@ [id |-> CountPageViews(table) + 1]]

\* Math.round(n / d) for n >= 0, d > 0: the nearest integer, a half rounded up.
MathRound(n, d) == (2 * n + d) \div (2 * d)

\* Mutant: Math.floor in place of Math.round.
ConversionRate_Floor(totalContacts, totalVisitors) ==
    IF totalVisitors > 0 THEN (totalContacts * 100 * 100) \div totalVisitors
    ELSE 0

\* totalVisitors.count > 0 ? Math.round((contacts / visitors) * 100 * 100) / 100 : 0,
\* as the integer 100 * conversionRate (hundredths of a percent).  The doubles
\* of the source give the same integer for these counts: a quotient
\* 10000 * c / v with v < 32 is never within rounding error of a half.
ConversionRate(totalContacts, totalVisitors) ==
    IF totalVisitors > 0 THEN MathRound(totalContacts * 100 * 100, totalVisitors)
    ELSE 0

\* .groupBy(pageViews.path) with count(): one row per path that has rows.
GroupByPath(table) == {[path |-> p, views |-> table[p]] : p \in {q \in DOMAIN table : table[q] > 0}}

\* Mutant: the query has no orderBy.
topPages_Unordered(table) ==
    LET groups == GroupByPath(table)
    IN  {Limit(s, TopLimit) : s \in OrderByDesc(groups, [g \in groups |-> 0])}

\* select path, count() from pageViews group by path order by count() desc limit 5
topPages(table) ==
    LET groups == GroupByPath(table)
    IN  {Limit(s, TopLimit) : s \in OrderByDesc(groups, [g \in groups |-> g.views])}

\* select from contactSubmissions order by createdAt desc limit 5
recentSubmissions(table) == {Limit(s, TopLimit) : s \in getContactSubmissions(table)}

\* app.post("/api/analytics/pageview")
PostPageview(body, ok) ==
    LET errs == parse(PageviewRequired, body)
        out == CreateRoute(errs, ok)
        call == createPageView(pageViews, body)
    IN  /\ Serve
        /\ out.stored => CountPageViews(pageViews) < MaxPageViews
        /\ pageViews' = IF out.stored THEN call.table ELSE pageViews
        /\ Respond("POST /api/analytics/pageview", body, out,
              CASE out.code = 200 -> [success |-> TRUE, id |-> call.result.id]
                [] out.code = 400 -> [success |-> FALSE, errors |-> errs]
                [] OTHER -> [success |-> FALSE])
        /\ UNCHANGED <<contactSubmissions, clients, projects, now, dash, acked, viaRoute>>

DashUnchanged ==
    UNCHANGED <<contactSubmissions, pageViews, clients, projects, now, acked, viaRoute>>

\* getAnalyticsDashboard, first statement: totalVisitors
DashTotalVisitors ==
    /\ dash.pc = 0
    /\ dash' = [dash EXCEPT !.pc = 1, !.totalVisitors = CountPageViews(pageViews)]
    /\ between' = 0
    /\ resp' = [route |-> "GET /api/analytics/dashboard", req |-> <<>>, calls |-> 1,
                sent |-> <<>>]
    /\ DashUnchanged

\* second statement: totalPageViews
DashTotalPageViews ==
    /\ dash.pc = 1
    /\ dash' = [dash EXCEPT !.pc = 2, !.totalPageViews = CountPageViews(pageViews)]
    /\ UNCHANGED <<between, resp>>
    /\ DashUnchanged

\* third statement: totalContacts; then conversionRate from the locals
DashTotalContacts ==
    LET totalContacts == CountContacts(contactSubmissions)
    IN  /\ dash.pc = 2
        /\ dash' = [dash EXCEPT !.pc = 3, !.totalContacts = totalContacts,
                        !.conversionRate = ConversionRate(totalContacts, dash.totalVisitors)]
        /\ UNCHANGED <<between, resp>>
        /\ DashUnchanged

\* fourth statement: topPages
DashTopPages ==
    /\ dash.pc = 3
    /\ \E rows \in topPages(pageViews) : dash' = [dash EXCEPT !.pc = 4, !.topPages = rows]
    /\ UNCHANGED <<between, resp>>
    /\ DashUnchanged

\* fifth statement: recentSubmissions; then the result, sent by
\* app.get("/api/analytics/dashboard")
DashReturn ==
    /\ dash.pc = 4
    /\ \E recent \in recentSubmissions(contactSubmissions) :
          Respond("GET /api/analytics/dashboard", <<>>, PlainRoute(TRUE),
              [totalVisitors |-> dash.totalVisitors,
               pageViews |-> dash.totalPageViews,
               contactForms |-> dash.totalContacts,
               conversionRate |-> dash.conversionRate,
               topPages |-> dash.topPages,
               recentSubmissions |-> recent,
               monthlyStats |-> <<>>])
    /\ dash' = DashIdle
    /\ between' = 0
    /\ DashUnchanged

\* The store rejects the dashboard's next statement: the route's catch.
DashThrows ==
    /\ dash.pc \in 0..4
    /\ Respond("GET /api/analytics/dashboard", <<>>, PlainRoute(FALSE), [success |-> FALSE])
    /\ dash' = DashIdle
    /\ between' = 0
    /\ DashUnchanged

\* ---------------------------------------------------------- client portal

ClientBodies == {[name |-> "c"], [company |-> "co"]}

ClientRequired == {"name"}

\* Bodies of POST /api/client/projects: with or without a clientId and a status
\* of their own, and one without the required name.
ProjectBodies ==
    { [name |-> "p"],
      [name |-> "p", clientId |-> 2, status |-> "active"],
      [clientId |-> 2, status |-> "active"] }

ProjectRequired == {"name", "clientId"}

\* The projects a caller of the storage layer may pass to createProject.
InsertProjects ==
    {[name |-> "p", clientId |-> c, status |-> "planning"] : c \in 1..(MaxClients + 1)}

\* The store's foreign key from projects.clientId to clients.id.
ForeignKeyHolds(table, clientId) == clientId \in Ids(table)

\* db.insert(clients).values(client).returning()
createClient(table, client) ==
    LET newClient == client @@ [id |-> Len(table) + 1]
    IN  [table |-> Append(table, newClient), result |-> newClient]

\* db.insert(projects).values(project).returning()
createProject(table, project) ==
    LET newProject == project @@ [id |-> Len(table) + 1]
    IN  [table |-> Append(table, newProject), result |-> newProject]

\* Mutant: the select has no where clause.
getClientProjects_NoWhere(table, clientId) ==
    OrderByDesc(Rows(table), [r \in Rows(table) |-> 0])

\* db.select().from(projects).where(eq(projects.clientId, clientId)): the
\* matching rows, in any order the store returns them.
getClientProjects(table, clientId) ==
    LET matching == {r \in Rows(table) : r.clientId = clientId}
    IN  OrderByDesc(matching, [r \in matching |-> 0])

\* Mutant: the body is spread after the hardcoded fields.
ProjectData_BodyWins(body) ==
    body @@ [clientId |-> PlaceholderClientId, status |-> "planning"]

\* { ...req.body, clientId: 1, status: "planning" }
ProjectData(body) ==
    [clientId |-> PlaceholderClientId, status |-> "planning"] @@ body

\* app.post("/api/client")
PostClient(body, ok) ==
    LET errs == parse(ClientRequired, body)
        out == CreateRoute(errs, ok)
        call == createClient(clients, body)
    IN  /\ Serve
        /\ out.stored => Len(clients) < MaxClients
        /\ clients' = IF out.stored THEN call.table ELSE clients
        /\ Respond("POST /api/client", body, out,
              CASE out.code = 200 -> [success |-> TRUE, client |-> call.result]
                [] out.code = 400 -> [success |-> FALSE, errors |-> errs]
                [] OTHER -> [success |-> FALSE])
        /\ UNCHANGED <<contactSubmissions, pageViews, projects, now, dash, acked, viaRoute>>

\* app.post("/api/client/projects")
PostClientProjects(body, ok) ==
    LET projectData == ProjectData(body)
        errs == parse(ProjectRequired, projectData)
        out == CreateRoute(errs, ok /\ ForeignKeyHolds(clients, projectData.clientId))
        call == createProject(projects, projectData)
    IN  /\ Serve
        /\ out.stored => Len(projects) < MaxProjects
        /\ projects' = IF out.stored THEN call.table ELSE projects
        /\ viaRoute' = IF out.code = 200 THEN viaRoute \cup {call.result.id} ELSE viaRoute
        /\ Respond("POST /api/client/projects", body, out,
              CASE out.code = 200 -> [success |-> TRUE, project |-> call.result]
                [] out.code = 400 -> [success |-> FALSE, errors |-> errs]
                [] OTHER -> [success |-> FALSE])
        /\ UNCHANGED <<contactSubmissions, pageViews, clients, now, dash, acked>>

\* app.get("/api/client/projects")
GetClientProjects(ok) ==
    LET out == PlainRoute(ok)
    IN  /\ Serve
        /\ \E rows \in getClientProjects(projects, PlaceholderClientId) :
              Respond("GET /api/client/projects", <<>>, out,
                  IF out.code = 200 THEN rows ELSE <<>>)
        /\ UNCHANGED <<contactSubmissions, pageViews, clients, projects, now, dash,
                       acked, viaRoute>>

\* storage.createProject(project), called on the exported storage object: it
\* returns the new row, or throws when the store rejects the insert.
CallCreateProject(project, ok) ==
    LET accepted == ok /\ ForeignKeyHolds(clients, project.clientId)
        call == createProject(projects, project)
    IN  /\ Serve
        /\ accepted => Len(projects) < MaxProjects
        /\ projects' = IF accepted THEN call.table ELSE projects
        /\ resp' = [route |-> "storage.createProject", req |-> project, calls |-> 1,
                    sent |-> <<>>,
                    returned |-> IF accepted THEN <<call.result>> ELSE <<>>]
        /\ UNCHANGED <<contactSubmissions, pageViews, clients, now, dash, acked, viaRoute>>

\* storage.getClientProjects(clientId), called on the exported storage object.
CallGetClientProjects(clientId) ==
    /\ Serve
    /\ \E rows \in getClientProjects(projects, clientId) :
          resp' = [route |-> "storage.getClientProjects", req |-> [clientId |-> clientId],
                   calls |-> 1, sent |-> <<>>, returned |-> rows]
    /\ UNCHANGED <<contactSubmissions, pageViews, clients, projects, now, dash,
                   acked, viaRoute>>

\* The clock advances.
Tick ==
    /\ now < MaxTime
    /\ now' = now + 1
    /\ UNCHANGED <<contactSubmissions, pageViews, clients, projects, dash, between,
                   resp, acked, viaRoute>>

\* ------------------------------------------------------- specifications

Init ==
    /\ contactSubmissions = <<>>
    /\ pageViews = [p \in Paths |-> 0]
    /\ clients = <<>>
    /\ projects = <<>>
    /\ now = 0
    /\ dash = DashIdle
    /\ between = 0
    /\ resp = [route |-> "none", req |-> <<>>, calls |-> 0, sent |-> <<>>]
    /\ acked = {}
    /\ viaRoute = {}

\* The ids a PATCH may name: those the table may hold, and one it never holds.
PatchIds == 1..(MaxSubmissions + 1)

PatchArgs == {Null, 0} \cup Users

\* The contact form and the CRM routes, the store failing at will, the clock still.
Next ==
    \/ \E body \in ContactBodies, ok \in BOOLEAN : PostContact(body, ok)
    \/ \E ok \in BOOLEAN : GetContactSubmissions(ok)
    \/ \E id \in PatchIds, status \in Statuses, assignedTo \in PatchArgs,
          ok \in BOOLEAN : PatchContactSubmission(id, status, assignedTo, ok)

Spec == Init /\ [][Next]_vars

\* The status update under a running clock, the store accepting every statement.
NextCrm ==
    \/ \E body \in ContactBodies : PostContact(body, TRUE)
    \/ \E id \in PatchIds, status \in Statuses, assignedTo \in PatchArgs :
          PatchContactSubmission(id, status, assignedTo, TRUE)
    \/ Tick

SpecCrm == Init /\ [][NextCrm]_vars

\* Page views on two paths, contact forms and the dashboard, requests served
\* between the dashboard's statements, the store failing at will.
NextAnalytics ==
    \/ \E body \in {[path |-> "/a"], [path |-> "/b"], [referrer |-> "r"]},
          ok \in BOOLEAN : PostPageview(body, ok)
    \/ \E body \in ContactBodies, ok \in BOOLEAN : PostContact(body, ok)
    \/ DashTotalVisitors
    \/ DashTotalPageViews
    \/ DashTotalContacts
    \/ DashTopPages
    \/ DashReturn
    \/ DashThrows

SpecAnalytics == Init /\ [][NextAnalytics]_vars

\* Page views on every path and the dashboard, one request at a time.
NextTopPages ==
    \/ dash.pc = 0 /\ \E body \in PageviewBodies : PostPageview(body, TRUE)
    \/ DashTotalVisitors
    \/ DashTotalPageViews
    \/ DashTotalContacts
    \/ DashTopPages
    \/ DashReturn

SpecTopPages == Init /\ [][NextTopPages]_vars

\* Clients and projects, through the routes and through the storage layer, the
\* store failing at will.
NextPortal ==
    \/ \E body \in ClientBodies, ok \in BOOLEAN : PostClient(body, ok)
    \/ \E body \in ProjectBodies, ok \in BOOLEAN : PostClientProjects(body, ok)
    \/ \E ok \in BOOLEAN : GetClientProjects(ok)
    \/ \E project \in InsertProjects, ok \in BOOLEAN : CallCreateProject(project, ok)
    \/ \E clientId \in 1..(MaxClients + 1) : CallGetClientProjects(clientId)

SpecPortal == Init /\ [][NextPortal]_vars

\* ---------------------------------------------------------------- claims

Served(route) == resp.route = route /\ Len(resp.sent) = 1
Code == resp.sent[1].code
Body == resp.sent[1].body

\* C1: a PATCH whose id matches no stored ContactSubmission ends in the 500
\* response, never in a 200 response with success:true.
C1_NotFoundIs500 ==
    (Served("PATCH /api/contact-submissions/:id")
        /\ resp.req.id \notin Ids(contactSubmissions))
    => Code = 500

\* C2 as stated: every valid payload gets a 200 whose submissionId is the id of
\* a stored row.
C2_ValidAlways200 ==
    (Served("POST /api/contact") /\ parse(ContactRequired, resp.req) = {})
    => Code = 200 /\ Body.submissionId \in Ids(contactSubmissions)

\* C2 amended: a valid payload gets a 200 whose submissionId is the id of a
\* stored row, or a 500 when the store rejected the insert; every submissionId
\* ever sent stays the id of a stored row and is among the rows of every later
\* successful GET /api/contact-submissions.
C2_AckedRowsRetrievable ==
    /\ (Served("POST /api/contact") /\ parse(ContactRequired, resp.req) = {})
        => \/ Code = 200 /\ Body.submissionId \in acked
           \/ Code = 500
    /\ acked \subseteq Ids(contactSubmissions)
    /\ (Served("GET /api/contact-submissions") /\ Code = 200)
        => acked \subseteq {Body[i].id : i \in 1..Len(Body)}

C2_Witness ==
    /\ Served("GET /api/contact-submissions")
    /\ Code = 200
    /\ Cardinality(acked) = 2
    /\ Len(Body) = 2

OtherTablesUnchanged == UNCHANGED <<pageViews, clients, projects>>

\* C3: a payload that fails validation gets a 400 with a non-empty errors list,
\* no storage operation is called and the stored rows are unchanged; and a 400
\* is sent only for a validation error.
C3_InvalidIs400 ==
    /\ [][\A body \in ContactBodies, ok \in BOOLEAN :
            (PostContact(body, ok) /\ parse(ContactRequired, body) # {})
            => /\ Len(resp'.sent) = 1
               /\ resp'.sent[1].code = 400
               /\ resp'.sent[1].body.errors # {}
               /\ resp'.calls = 0
               /\ contactSubmissions' = contactSubmissions
               /\ OtherTablesUnchanged]_vars
    /\ [](\A i \in 1..Len(resp.sent) :
            resp.sent[i].code = 400
            => /\ resp.route = "POST /api/contact"
               /\ parse(ContactRequired, resp.req) # {}
               /\ resp.sent[i].body.errors = parse(ContactRequired, resp.req))

C3_Witness ==
    /\ Served("POST /api/contact")
    /\ Code = 400
    /\ Body.errors = {"message"}
    /\ resp.calls = 0
    /\ Len(contactSubmissions) = 1

\* C10: when the store rejects the statement of a create or update route, the
\* route responds 500 once, issues the statement once and the stored rows are
\* as before; every request ends in one response, a 200, a 400 or a 500.
C10_RejectedIs500Once ==
    /\ [][/\ \A body \in ContactBodies :
                (PostContact(body, FALSE) /\ parse(ContactRequired, body) = {})
                => /\ Len(resp'.sent) = 1
                   /\ resp'.sent[1].code = 500
                   /\ resp'.calls = 1
                   /\ contactSubmissions' = contactSubmissions
                   /\ OtherTablesUnchanged
          /\ \A id \in PatchIds, status \in Statuses, assignedTo \in PatchArgs :
                PatchContactSubmission(id, status, assignedTo, FALSE)
                => /\ Len(resp'.sent) = 1
                   /\ resp'.sent[1].code = 500
                   /\ resp'.calls = 1
                   /\ contactSubmissions' = contactSubmissions
                   /\ OtherTablesUnchanged]_vars
    /\ [](resp.route # "none"
            => /\ Len(resp.sent) = 1
               /\ resp.sent[1].code \in {200, 400, 500}
               /\ resp.calls <= 1)

C10_Witness ==
    /\ Served("PATCH /api/contact-submissions/:id")
    /\ Code = 500
    /\ resp.calls = 1
    /\ resp.req.id \in Ids(contactSubmissions)
    /\ contactSubmissions[resp.req.id].status = "new"

PatchedRow(old, status, t) == [old EXCEPT !.status = status, !.updatedAt = t]

\* The frame of a status update of row id: the table keeps its length and its
\* other rows, and row id becomes new.
OnlyRowChanged(id, new) ==
    /\ Len(contactSubmissions') = Len(contactSubmissions)
    /\ contactSubmissions'[id] = new
    /\ \A i \in 1..Len(contactSubmissions) :
          i # id => contactSubmissions'[i] = contactSubmissions[i]

\* A step that is PATCH id with status and a falsy assignedTo, accepted by the
\* store, on a stored row.  (The route logs its input in resp, which names the
\* one candidate for id, status and assignedTo.)
FalsyPatchStep(id, status, assignedTo) ==
    /\ assignedTo \in {Null, 0}
    /\ id \in Ids(contactSubmissions)
    /\ PatchContactSubmission(id, status, assignedTo, TRUE)

\* C4 as stated: without a truthy assignedTo the update keeps assignedTo, sets
\* status, moves updatedAt to a later time and changes nothing else.
C4_UpdatedAtAdvances ==
    [][resp'.route = "PATCH /api/contact-submissions/:id"
        => LET id == resp'.req.id
               status == resp'.req.status
           IN  FalsyPatchStep(id, status, resp'.req.assignedTo)
               => /\ OnlyRowChanged(id, PatchedRow(contactSubmissions[id], status, now))
                  /\ contactSubmissions'[id].updatedAt
                        > contactSubmissions[id].updatedAt]_vars

\* C4 amended: without a truthy assignedTo the update keeps assignedTo, sets
\* status, sets updatedAt to the time of the call (never earlier than the prior
\* value, equal to it when the prior write was at the same clock reading) and
\* changes nothing else.
C4_FalsyAssignedToKept ==
    [][resp'.route = "PATCH /api/contact-submissions/:id"
        => LET id == resp'.req.id
               status == resp'.req.status
           IN  FalsyPatchStep(id, status, resp'.req.assignedTo)
               => /\ OnlyRowChanged(id, PatchedRow(contactSubmissions[id], status, now))
                  /\ contactSubmissions'[id].updatedAt
                        >= contactSubmissions[id].updatedAt]_vars

C4_Witness ==
    /\ Served("PATCH /api/contact-submissions/:id")
    /\ Code = 200
    /\ resp.req.assignedTo = 0
    /\ Len(Body.submission) = 1
    /\ Body.submission[1].assignedTo = 1
    /\ Body.submission[1].status = "closed"
    /\ Body.submission[1].updatedAt > Body.submission[1].createdAt
    /\ Len(contactSubmissions) = 2

Abs(x) == IF x < 0 THEN -x ELSE x

\* C5: every dashboard result has pageViews equal to totalVisitors, also when
\* other requests are served between the dashboard's store queries.
C5_PageViewsEqualVisitors ==
    (Served("GET /api/analytics/dashboard") /\ Code = 200)
    => Body.pageViews = Body.totalVisitors

\* C6: the result's conversionRate is contactForms / totalVisitors * 100 rounded
\* to 2 decimal places (the hundredth nearest to the quotient) when
\* totalVisitors > 0, and 0 when no PageView row was counted, whatever the
\* number of ContactSubmission rows.
C6_ConversionRateRounded ==
    (Served("GET /api/analytics/dashboard") /\ Code = 200)
    => IF Body.totalVisitors > 0
       THEN 2 * Abs(Body.conversionRate * Body.totalVisitors
                        - 100 * 100 * Body.contactForms) <= Body.totalVisitors
       ELSE Body.conversionRate = 0

C6_Witness ==
    /\ Served("GET /api/analytics/dashboard")
    /\ Code = 200
    /\ Body.totalVisitors = 3
    /\ Body.contactForms = 2
    /\ Body.conversionRate = 6667

NoRepeatedPath(rows) ==
    \A i, j \in 1..Len(rows) : rows[i].path = rows[j].path => i = j

\* rows is a top-5 of table: at most 5 entries and as many as there are paths
\* up to 5, one per path, each with the number of rows of its path, in
\* non-increasing order of views, no omitted path with more views than a
\* listed one.
IsTopPages(rows, table) ==
    LET visited == {p \in DOMAIN table : table[p] > 0}
        listed == {rows[i].path : i \in 1..Len(rows)}
    IN  /\ Len(rows) <= 5
        /\ Len(rows) = Min(5, Cardinality(visited))
        /\ NoRepeatedPath(rows)
        /\ \A i \in 1..Len(rows) :
              rows[i].path \in visited /\ rows[i].views = table[rows[i].path]
        /\ \A i \in 1..Len(rows) - 1 : rows[i].views >= rows[i + 1].views
        /\ \A p \in visited \ listed : \A i \in 1..Len(rows) : table[p] <= rows[i].views

\* C7: the topPages the dashboard query reads is a top-5 of the pageViews table
\* (4 views of /a and 2 of /b give /a:4 before /b:2), and the result returned
\* carries that list.
C7_TopPages ==
    [][/\ (dash.pc = 3 /\ dash'.pc = 4) => IsTopPages(dash'.topPages, pageViews)
       /\ (dash.pc = 4 /\ DashReturn) => resp'.sent[1].body.topPages = dash.topPages]_vars

C7_Witness ==
    /\ Served("GET /api/analytics/dashboard")
    /\ Code = 200
    /\ Len(Body.topPages) = 5
    /\ Cardinality({p \in Paths : pageViews[p] > 0}) = 6

Range(seq) == {seq[i] : i \in 1..Len(seq)}

\* C8: getClientProjects(X) returns exactly the stored projects whose clientId
\* is X, each once: it includes a project createProject made for X, holds no
\* project of another client, and is empty when X has no project.
C8_ClientProjectsExact ==
    /\ resp.route = "storage.getClientProjects"
        => /\ Range(resp.returned) = {r \in Rows(projects) : r.clientId = resp.req.clientId}
           /\ Len(resp.returned) = Cardinality(Range(resp.returned))
    /\ (resp.route = "storage.createProject" /\ resp.returned # <<>>)
        => /\ resp.returned[1].clientId = resp.req.clientId
           /\ resp.returned[1] \in Rows(projects)
           /\ resp.returned[1] \in UNION {Range(rows) :
                    rows \in getClientProjects(projects, resp.req.clientId)}

C8_Witness ==
    /\ resp.route = "storage.getClientProjects"
    /\ resp.req.clientId = 2
    /\ Len(resp.returned) = 1
    /\ Len(projects) = 3
    /\ Len(clients) = 2

\* C9: every project created through POST /api/client/projects has the
\* placeholder clientId and status "planning", whatever clientId or status the
\* body carries; GET /api/client/projects returns every such project.
C9_RouteProjectsHardcoded ==
    /\ \A id \in viaRoute :
          /\ id \in Ids(projects)
          /\ projects[id].clientId = 1
          /\ projects[id].status = "planning"
    /\ (Served("POST /api/client/projects") /\ Code = 200)
        => Body.project.clientId = 1 /\ Body.project.status = "planning"
    /\ (Served("GET /api/client/projects") /\ Code = 200)
        => viaRoute \subseteq {Body[i].id : i \in 1..Len(Body)}

C9_Witness ==
    /\ Served("POST /api/client/projects")
    /\ Code = 200
    /\ resp.req = [name |-> "p", clientId |-> 2, status |-> "active"]
    /\ Body.project.clientId = 1
    /\ Body.project.status = "planning"
    /\ Len(clients) = 2

====
